---- MODULE Spec2Model ----
(***************************************************************************)
(* Model of the SQL benchmark evaluation engine:                           *)
(*   - SQLBenchmarkGreenAgent.handle_assessment (orchestrator),            *)
(*   - ArtifactBuilder (participant summaries and rankings),               *)
(*   - CircuitBreaker and ResilientHTTPClient (resilience layer).          *)
(* Scores and progress values are integers in units of 1/10000.            *)
(***************************************************************************)
EXTENDS Integers, Sequences, FiniteSets, TLC

\* ---------------------------------------------------------------- bounds
\* largest task_count an assessment request asks for
MaxTaskCount == 2
\* latest reading of the monotonic clock, in seconds
MaxTime == 60
\* seconds by which one clock step advances time.monotonic()
TimeStep == 15

\* most rows in one result set handed to the comparator
MaxRows == 2
\* most submitted queries one assessment evaluates
MaxEvals == 2
\* most failures recorded on a breaker whose methods are called directly
MaxFailures == 5
\* longest task list and most participants of the assessment whose progress
\* values are followed
MaxProgressTasks == 7
MaxProgressParticipants == 11

\* ------------------------------------------------------ program constants
FailureThreshold == 3
RecoveryTimeout == 30
HalfOpenMaxCalls == 1
StopAfterAttempt == 3
\* numeric_tolerance=1e-6; cell values are integers in units of 1e-6
NumericTolerance == 1
\* a cell holding None
NoneValue == -1000

\* ------------------------------------------------------- value universes
Pids == {"a", "b"}
\* candidate ids in ascending lexicographic order
PidsSorted == <<"a", "b">>
NoPid == "-"
NoError == "none"
NoSql == ""
DefaultNoSqlError == "No SQL returned"
ValidPresets == {"default", "strict", "performance", "quality"}
ValidDialects == {"sqlite", "duckdb", "postgresql"}

\* overall scores a scorer can return for an executed query
Scores == {5000, 10000}

\* the gold-task catalog loaded at construction (_load_tasks)
AllTasks ==
  << [id |-> "T1", difficulty |-> "easy",   tags |-> {"select"}],
     [id |-> "T2", difficulty |-> "medium", tags |-> {"join"}],
     [id |-> "T3", difficulty |-> "easy",   tags |-> {"join", "select"}] >>

\* participants maps: insertion-ordered dicts, as sequences of distinct ids
ParticipantMaps ==
  { s \in UNION { [1..n -> Pids] : n \in 0..Cardinality(Pids) } :
      \A i, j \in DOMAIN s : i # j => s[i] # s[j] }

\* raw config mappings of an assessment request, after AssessmentConfig.from_dict
Configs ==
  [ difficulty : {{"easy", "medium"}, {"medium"}, {"hard"}},
    task_count : 0..MaxTaskCount,
    tags : {{}, {"join"}},
    scorer_preset : {"default", "bogus"},
    dialect : {"sqlite", "bogus"},
    same_tasks : BOOLEAN,
    parallel_evaluation : BOOLEAN ]

\* what one dispatch (send_task_func) can do
DispatchOutcomes ==
  { [kind |-> "raise",  sql |-> NoSql, error |-> "ConnectError"],
    [kind |-> "return", sql |-> NoSql, error |-> "agent failed"],
    [kind |-> "return", sql |-> NoSql, error |-> NoError],
    [kind |-> "return", sql |-> "Q",   error |-> NoError] }

\* what executing and scoring one submitted query can give (_evaluate_sql)
EvalOutcomes ==
  { [success |-> FALSE, overall |-> 0, error |-> "exec error"] } \cup
  { [success |-> TRUE, overall |-> s, error |-> NoError] : s \in Scores }

NoResponse == [sql |-> "?", error |-> "?"]
NoArtifact == [built |-> FALSE, rankings |-> <<>>, summaries |-> <<>>,
               task_comparison |-> <<>>]

\* match_score=None
NoScore == -1
\* confidence is in units of 1/100; details and evidence texts are left out
Classification(category, subcategory, confidence) ==
  [category |-> category, subcategory |-> subcategory, confidence |-> confidence]
\* match_score is in units of 1/10000; the details mapping is left out
ComparisonResult(is_match, match_score, row_count_match, column_count_match) ==
  [is_match |-> is_match, match_score |-> match_score,
   row_count_match |-> row_count_match,
   column_count_match |-> column_count_match]

\* values of the variables of a component that is not in use
NoClassification == Classification("none", "none", 0)
NoComparison == ComparisonResult(FALSE, NoScore, FALSE, FALSE)
NoClassifyArgs == "none"
NoCompareArgs == "none"
NoEvalArgs == "none"
\* no TaskResult has been returned
NoTaskResult == [task_id |-> "none"]
\* self._executor = None
NoExecutor == [none |-> TRUE]
NoAssessments == "none"
NoProgressRun ==
  [pc |-> "off", len_tasks |-> 0, len_participants |-> 0, task_i |-> 0,
   evaluations_done |-> 0, status |-> "none", progress |-> <<>>, task |-> 0]

\* URL hosts (netloc) of candidate endpoints
Hosts == {"h1", "h2"}
\* the host that the concurrent calls of SpecClient go to
CalledHosts == {"h1"}
\* calls of request that can be in flight at the same time
Reqs == {"r1", "r2"}
NoTime == -1
\* what one HTTP attempt of _request_with_retry can end in
AttemptResults == {"ok", "network", "timeout", "http4xx", "http5xx", "other"}
\* variant: only transport errors and timeouts are retried
RetryableTransportOnly == {"network", "timeout"}
\* aiohttp.ClientError (raise_for_status raises a subclass of it for every
\* status >= 400) and asyncio.TimeoutError
RetryableResults == {"network", "timeout", "http4xx", "http5xx"}
\* a host without an entry in _circuit_breakers
NoBreaker == [state |-> "absent", failures |-> 0, last_failure_time |-> NoTime,
              half_open_calls |-> 0]
IdleRequest == [pc |-> "idle", host |-> "none", attempts |-> 0, via |-> "none",
                resp |-> "none"]
\* no call of request has ended yet
NoCall == [host |-> "none", attempts |-> 0, resp |-> "none", outcome |-> "none"]
\* nothing answered yet: n5xx counts the latest consecutive HTTP 5xx answers of
\* a host, calls the latest consecutive calls that ended on such an answer
\* (both stop counting at the failure threshold)
NoAnswers == [n5xx |-> 0, calls |-> 0]

VARIABLES
  participants,      \* handle_assessment argument: ids in insertion order
  config,            \* AssessmentConfig.from_dict(config)
  has_send,          \* whether send_task_func was given
  pc,                \* position of the handle_assessment generator
  tasks,             \* filtered task list
  task_idx,          \* index of the task being processed (1-based)
  seq_idx,           \* sequential mode: index of the next participant
  eval_idx,          \* index of the next response to evaluate
  inflight,          \* participants whose dispatch has not returned
  responses,         \* responses of the current task, by participant
  all_results,       \* accumulator: participant -> list of TaskResult
  evaluations_done,
  stream,            \* TaskUpdates yielded so far
  artifact,          \* result of ArtifactBuilder.build
  raised,            \* exception that left the generator, or NoError
  dispatched,        \* history: <<pid, task id>> pairs handed to send_task_func
  dispatch_raised,   \* history: <<pid, task id, error>> of dispatches that raised
  circuit_breakers,  \* ResilientHTTPClient._circuit_breakers, by host
  now,               \* time.monotonic()
  req,               \* the calls of ResilientHTTPClient.request in flight, by slot
  last,              \* history: the call of request that ended most recently
  answers,           \* history: consecutive HTTP 5xx answers and failed calls
  classify_args,     \* arguments of one call of SQLErrorClassifier.classify
  classification,    \* the ErrorClassification it returned
  compare_args,      \* comparator settings and arguments of one call of compare
  comparison,        \* the ComparisonResult it returned
  eval_args,         \* one call of _evaluate_sql: task, sql, what the components gave
  eval_result,       \* the TaskResult it returned
  executor,          \* SQLBenchmarkGreenAgent._executor: the reference database
  assessments,       \* the handle_assessment calls running on one agent
  progress_run       \* one handle_assessment call, its TaskUpdate progress only

orchVars == <<participants, config, has_send, pc, tasks, task_idx, seq_idx,
              eval_idx, inflight, responses, all_results, evaluations_done,
              stream, artifact, raised, dispatched, dispatch_raised>>

clientVars == <<circuit_breakers, now, req, last, answers>>

\* the components modelled on their own: classifier, comparator, _evaluate_sql,
\* and the executor shared by the assessments of one agent
libVars == <<classify_args, classification, compare_args, comparison,
             eval_args, eval_result, executor, assessments, progress_run>>

vars == <<orchVars, clientVars, libVars>>

\* ------------------------------------------------------ helper operators
RECURSIVE SumOverall(_)
SumOverall(trs) ==
  IF trs = <<>> THEN 0 ELSE Head(trs).scores_overall + SumOverall(Tail(trs))

PidSet == { participants[i] : i \in DOMAIN participants }

TaskUpdate(status, progress, pid, tid, art) ==
  [status |-> status, progress |-> progress, participant |-> pid,
   task_id |-> tid, has_artifact |-> art]

\* ---------------------------------------------------------- _filter_tasks
RECURSIVE FilterFrom(_, _, _)
FilterFrom(i, filtered, cfg) ==
  IF i > Len(AllTasks) THEN filtered
  ELSE LET task == AllTasks[i] IN
       IF task.difficulty \notin cfg.difficulty
         THEN FilterFrom(i + 1, filtered, cfg)
       ELSE IF cfg.tags # {} /\ task.tags \cap cfg.tags = {}
         THEN FilterFrom(i + 1, filtered, cfg)
       ELSE LET appended == Append(filtered, task) IN
            IF Len(appended) >= cfg.task_count THEN appended
            ELSE FilterFrom(i + 1, appended, cfg)

\* variant: an empty selection falls back to the first catalog task
filter_tasks_fallback(cfg) ==
  IF FilterFrom(1, <<>>, cfg) = <<>> THEN SubSeq(AllTasks, 1, 1)
  ELSE FilterFrom(1, <<>>, cfg)

filter_tasks(cfg) == FilterFrom(1, <<>>, cfg)

\* ------------------------------------------------------------ TaskResults
\* the TaskResult synthesized for a response with empty sql
FailedTaskResult(task, response) ==
  [task_id |-> task.id, sql_submitted |-> NoSql, scores_overall |-> 0,
   scores |-> [overall |-> 0, correctness |-> 0, efficiency |-> 0,
               safety |-> 0, completeness |-> 0, semantic_accuracy |-> 0,
               best_practices |-> 0, plan_quality |-> 0,
               hallucination_score |-> 10000, validation_score |-> 10000,
               performance_score |-> 10000],
   execution_success |-> FALSE,
   error_message |-> IF response.error = NoError THEN DefaultNoSqlError
                     ELSE response.error]

\* the TaskResult _evaluate_sql builds for a submitted query
evaluate_sql(sql, task, o) ==
  [task_id |-> task.id, sql_submitted |-> sql,
   scores_overall |-> IF o.success THEN o.overall ELSE 0,
   execution_success |-> o.success,
   error_message |-> o.error]

\* variant: the exception text is dropped
ExceptionResponseNoError(err) == [sql |-> NoSql, error |-> NoError]

\* the response recorded for a dispatch that raised
ExceptionResponse(err) == [sql |-> NoSql, error |-> err]

\* the mock response used when no send_task_func is given
MockResponse(task) == [sql |-> "Q", error |-> NoError]

\* variant: a result without SQL is not recorded
AccumulateSkipFailed(results, pid, tr) ==
  IF tr.sql_submitted = NoSql THEN results
  ELSE [results EXCEPT ![pid] = Append(@, tr)]

\* all_results[pid].append(task_result)
Accumulate(results, pid, tr) == [results EXCEPT ![pid] = Append(@, tr)]

\* progress of a per-evaluation working update
EvalProgress(done, total) == 1000 + (8500 * done) \div total

\* -------------------------------------------------------- ArtifactBuilder
\* _average_scores, overall field
average_overall(trs) ==
  IF trs = <<>> THEN 0 ELSE SumOverall(trs) \div Len(trs)

\* _build_participant_summary
build_participant_summary(pid, trs) ==
  LET ok == Cardinality({ i \in DOMAIN trs : trs[i].execution_success }) IN
  [participant_id |-> pid, total_tasks |-> Len(trs), successful |-> ok,
   failed |-> Len(trs) - ok, scores_overall |-> average_overall(trs)]

\* variant: the items are left in insertion order
InsertUnsorted(placed, x) == Append(placed, x)

\* where sorted(key=overall, reverse=True) puts the next item: behind every
\* item already placed whose key is at least as large (the sort is stable)
InsertDesc(placed, x) ==
  LET n == Cardinality({ i \in DOMAIN placed :
                           placed[i].scores_overall >= x.scores_overall }) IN
  SubSeq(placed, 1, n) \o <<x>> \o SubSeq(placed, n + 1, Len(placed))

RECURSIVE SortedDescFrom(_, _, _)
SortedDescFrom(items, i, placed) ==
  IF i > Len(items) THEN placed
  ELSE SortedDescFrom(items, i + 1, InsertDesc(placed, items[i]))

\* _build_rankings
build_rankings(summaries) ==
  LET sorted_participants == SortedDescFrom(summaries, 1, <<>>) IN
  [ r \in 1..Len(sorted_participants) |->
      [rank |-> r,
       participant_id |-> sorted_participants[r].participant_id,
       overall_score |-> sorted_participants[r].scores_overall] ]

\* _build_task_comparison: one row per result of the first participant,
\* with an entry for each participant that has a result at that index
build_task_comparison(parts, results) ==
  IF parts = <<>> THEN <<>>
  ELSE LET first_participant == results[parts[1]] IN
       [ i \in 1..Len(first_participant) |->
           [task_id |-> first_participant[i].task_id,
            agent_scores |->
              [ pid \in { parts[k] : k \in { j \in DOMAIN parts :
                                               i <= Len(results[parts[j]]) } } |->
                  [overall |-> results[pid][i].scores_overall,
                   sql |-> results[pid][i].sql_submitted,
                   execution_success |-> results[pid][i].execution_success] ]] ]

\* ArtifactBuilder.build: summaries in the accumulator's insertion order
build(parts, results) ==
  LET summaries == [ i \in 1..Len(parts) |->
                       build_participant_summary(parts[i], results[parts[i]]) ] IN
  [built |-> TRUE, rankings |-> build_rankings(summaries),
   summaries |-> summaries,
   task_comparison |-> build_task_comparison(parts, results)]

\* no call of classify, compare or _evaluate_sql is modelled on its own, and
\* no agent with its executor
ClassifierOff == classify_args = NoClassifyArgs /\ classification = NoClassification
ComparatorOff == compare_args = NoCompareArgs /\ comparison = NoComparison
EvaluateOff == eval_args = NoEvalArgs /\ eval_result = NoTaskResult
AgentOff == executor = NoExecutor /\ assessments = NoAssessments
ProgressOff == progress_run = NoProgressRun
LibOff == ClassifierOff /\ ComparatorOff /\ EvaluateOff /\ AgentOff /\ ProgressOff

\* no assessment is running
OrchestratorOff ==
  /\ participants = <<>>
  /\ config = CHOOSE c \in Configs : TRUE
  /\ has_send = FALSE
  /\ pc = "off"
  /\ tasks = <<>>
  /\ task_idx = 0
  /\ seq_idx = 0
  /\ eval_idx = 0
  /\ inflight = {}
  /\ responses = [p \in Pids |-> NoResponse]
  /\ all_results = [p \in Pids |-> <<>>]
  /\ evaluations_done = 0
  /\ stream = <<>>
  /\ artifact = NoArtifact
  /\ raised = NoError
  /\ dispatched = {}
  /\ dispatch_raised = {}

\* no HTTP client is in use
ClientOff ==
  /\ circuit_breakers = [h \in Hosts |-> NoBreaker]
  /\ now = 0
  /\ req = [r \in Reqs |-> IdleRequest]
  /\ last = NoCall
  /\ answers = [h \in Hosts |-> NoAnswers]

\* ------------------------------------------------------ handle_assessment
Init ==
  /\ participants \in ParticipantMaps
  /\ config \in Configs
  /\ has_send \in BOOLEAN
  /\ pc = "start"
  /\ tasks = <<>>
  /\ task_idx = 0
  /\ seq_idx = 0
  /\ eval_idx = 0
  /\ inflight = {}
  /\ responses = [p \in Pids |-> NoResponse]
  /\ all_results = [p \in Pids |-> <<>>]
  /\ evaluations_done = 0
  /\ stream = <<>>
  /\ artifact = NoArtifact
  /\ raised = NoError
  /\ dispatched = {}
  /\ dispatch_raised = {}
  /\ circuit_breakers = [h \in Hosts |-> NoBreaker]
  /\ now = 0
  /\ req = [r \in Reqs |-> IdleRequest]
  /\ last = NoCall
  /\ answers = [h \in Hosts |-> NoAnswers]
  /\ LibOff

\* lines 346-358: parse the config, yield the submitted update
Start ==
  /\ pc = "start"
  /\ stream' = Append(stream, TaskUpdate("submitted", 0, NoPid, "", FALSE))
  /\ pc' = "submitted"
  /\ UNCHANGED <<clientVars, libVars, participants, config, has_send, tasks, task_idx, seq_idx,
                 eval_idx, inflight, responses, all_results, evaluations_done,
                 artifact, raised, dispatched, dispatch_raised>>

\* lines 360-385: filter; fail on an empty list, else announce the evaluation
FilterTasks ==
  /\ pc = "submitted"
  /\ tasks' = filter_tasks(config)
  /\ IF tasks' = <<>>
       THEN /\ stream' = Append(stream, TaskUpdate("failed", 10000, NoPid, "", FALSE))
            /\ pc' = "done"
            /\ UNCHANGED task_idx
       ELSE /\ stream' = Append(stream, TaskUpdate("working", 500, NoPid, "", FALSE))
            /\ pc' = "task"
            /\ task_idx' = 1
  /\ UNCHANGED <<clientVars, libVars, participants, config, has_send, seq_idx, eval_idx, inflight,
                 responses, all_results, evaluations_done, artifact, raised,
                 dispatched, dispatch_raised>>

\* lines 388-429: start of one loop iteration; parallel mode hands the task
\* to every participant at once (asyncio.gather), or fills in mock responses
BeginTask ==
  /\ pc = "task"
  /\ task_idx <= Len(tasks)
  /\ eval_idx' = 1
  /\ IF config.parallel_evaluation
       THEN IF has_send
              THEN /\ inflight' = PidSet
                   /\ dispatched' = dispatched \cup
                        { <<p, tasks[task_idx].id>> : p \in PidSet }
                   /\ responses' = [p \in Pids |-> NoResponse]
                   /\ pc' = "gather"
                   /\ UNCHANGED seq_idx
              ELSE /\ responses' = [p \in Pids |->
                        IF p \in PidSet THEN MockResponse(tasks[task_idx])
                        ELSE NoResponse]
                   /\ pc' = "evaluate"
                   /\ UNCHANGED <<inflight, dispatched, seq_idx>>
       ELSE /\ responses' = [p \in Pids |-> NoResponse]
            /\ seq_idx' = 1
            /\ pc' = "seq"
            /\ UNCHANGED <<inflight, dispatched>>
  /\ UNCHANGED <<clientVars, libVars, participants, config, has_send, tasks, task_idx, all_results,
                 evaluations_done, stream, artifact, raised, dispatch_raised>>

\* lines 422-429: sequential mode, the next participant's dispatch
SeqDispatch ==
  /\ pc = "seq"
  /\ inflight = {}
  /\ seq_idx <= Len(participants)
  /\ LET pid == participants[seq_idx] IN
     IF has_send
       THEN /\ inflight' = {pid}
            /\ dispatched' = dispatched \cup { <<pid, tasks[task_idx].id>> }
            /\ UNCHANGED <<responses, seq_idx>>
       ELSE /\ responses' = [responses EXCEPT ![pid] = MockResponse(tasks[task_idx])]
            /\ seq_idx' = seq_idx + 1
            /\ UNCHANGED <<inflight, dispatched>>
  /\ UNCHANGED <<clientVars, libVars, participants, config, has_send, pc, tasks, task_idx, eval_idx,
                 all_results, evaluations_done, stream, artifact, raised,
                 dispatch_raised>>

\* lines 406-414 and 424-427: one dispatch returns or raises; an exception
\* becomes an empty-sql response in both modes
DispatchReturn(pid, o) ==
  /\ pc \in {"gather", "seq"}
  /\ pid \in inflight
  /\ inflight' = inflight \ {pid}
  /\ responses' = [responses EXCEPT ![pid] =
                     IF o.kind = "raise" THEN ExceptionResponse(o.error)
                     ELSE [sql |-> o.sql, error |-> o.error]]
  /\ dispatch_raised' = IF o.kind = "raise"
                          THEN dispatch_raised \cup
                                 { <<pid, tasks[task_idx].id, o.error>> }
                          ELSE dispatch_raised
  /\ seq_idx' = IF pc = "seq" THEN seq_idx + 1 ELSE seq_idx
  /\ UNCHANGED <<clientVars, libVars, participants, config, has_send, pc, tasks, task_idx, eval_idx,
                 all_results, evaluations_done, stream, artifact, raised,
                 dispatched>>

\* variant: the evaluation loop starts while dispatches are still in flight
DispatchDoneEarly ==
  /\ \/ pc = "gather"
     \/ pc = "seq" /\ seq_idx > Len(participants)
  /\ pc' = "evaluate"
  /\ UNCHANGED <<clientVars, libVars, participants, config, has_send, tasks, task_idx, seq_idx,
                 eval_idx, inflight, responses, all_results, evaluations_done,
                 stream, artifact, raised, dispatched, dispatch_raised>>

\* every dispatch of the task has returned: go on to the evaluation loop
DispatchDone ==
  /\ \/ pc = "gather"
     \/ pc = "seq" /\ seq_idx > Len(participants)
  /\ inflight = {}
  /\ pc' = "evaluate"
  /\ UNCHANGED <<clientVars, libVars, participants, config, has_send, tasks, task_idx, seq_idx,
                 eval_idx, inflight, responses, all_results, evaluations_done,
                 stream, artifact, raised, dispatched, dispatch_raised>>

\* lines 432-472: evaluate one response, append, yield a working update
Evaluate(o) ==
  /\ pc = "evaluate"
  /\ eval_idx <= Len(participants)
  /\ LET pid == participants[eval_idx]
         task == tasks[task_idx]
         response == responses[pid]
         task_result == IF response.sql = NoSql
                          THEN FailedTaskResult(task, response)
                          ELSE evaluate_sql(response.sql, task, o)
         total_evaluations == Len(tasks) * Len(participants)
     IN /\ response.sql = NoSql => o = CHOOSE x \in EvalOutcomes : TRUE
        /\ all_results' = Accumulate(all_results, pid, task_result)
        /\ evaluations_done' = evaluations_done + 1
        /\ stream' = Append(stream,
               TaskUpdate("working",
                          EvalProgress(evaluations_done', total_evaluations),
                          pid, task.id, FALSE))
  /\ eval_idx' = eval_idx + 1
  /\ UNCHANGED <<clientVars, libVars, participants, config, has_send, pc, tasks, task_idx, seq_idx,
                 inflight, responses, artifact, raised, dispatched,
                 dispatch_raised>>

\* end of one loop iteration
EndTask ==
  /\ pc = "evaluate"
  /\ eval_idx > Len(participants)
  /\ task_idx' = task_idx + 1
  /\ pc' = "task"
  /\ UNCHANGED <<clientVars, libVars, participants, config, has_send, tasks, seq_idx, eval_idx,
                 inflight, responses, all_results, evaluations_done, stream,
                 artifact, raised, dispatched, dispatch_raised>>

\* lines 474-479: the loop is over, announce the artifact construction
Finish ==
  /\ pc = "task"
  /\ task_idx > Len(tasks)
  /\ stream' = Append(stream, TaskUpdate("working", 9500, NoPid, "", FALSE))
  /\ pc' = "build"
  /\ UNCHANGED <<clientVars, libVars, participants, config, has_send, tasks, task_idx, seq_idx,
                 eval_idx, inflight, responses, all_results, evaluations_done,
                 artifact, raised, dispatched, dispatch_raised>>

\* lines 481-494: build the artifact; the completed update reads rankings[0],
\* which raises IndexError when there is no participant
BuildArtifact ==
  /\ pc = "build"
  /\ artifact' = build(participants, all_results)
  /\ IF artifact'.rankings = <<>>
       THEN /\ raised' = "IndexError"
            /\ UNCHANGED stream
       ELSE /\ stream' = Append(stream,
                   TaskUpdate("completed", 10000,
                              artifact'.rankings[1].participant_id, "", TRUE))
            /\ UNCHANGED raised
  /\ pc' = "done"
  /\ UNCHANGED <<clientVars, libVars, participants, config, has_send, tasks, task_idx, seq_idx,
                 eval_idx, inflight, responses, all_results, evaluations_done,
                 dispatched, dispatch_raised>>

Next ==
  \/ Start
  \/ FilterTasks
  \/ BeginTask
  \/ SeqDispatch
  \/ \E pid \in Pids, o \in DispatchOutcomes : DispatchReturn(pid, o)
  \/ DispatchDone
  \/ \E o \in EvalOutcomes : Evaluate(o)
  \/ EndTask
  \/ Finish
  \/ BuildArtifact

Spec == Init /\ [][Next]_vars

\* ---------------------------------------------------------- CircuitBreaker
\* CircuitBreaker.__init__
NewBreaker == [state |-> "closed", failures |-> 0, last_failure_time |-> NoTime,
               half_open_calls |-> 0]

\* _get_circuit_breaker: get or create the breaker of a host
\* variant: one breaker, the first host's, serves every host
get_circuit_breaker_shared(breakers, host) ==
  IF breakers["h1"] = NoBreaker THEN NewBreaker ELSE breakers["h1"]

get_circuit_breaker(breakers, host) ==
  IF breakers[host] = NoBreaker THEN NewBreaker ELSE breakers[host]

\* variant: the failure counter is left as it is
record_success_keeps_failures(b) ==
  [b EXCEPT !.half_open_calls = 0, !.state = "closed"]

record_success(b) ==
  [b EXCEPT !.failures = 0, !.half_open_calls = 0, !.state = "closed"]

\* variant: the threshold comparison is strict
record_failure_strict(b, t) ==
  LET failures == b.failures + 1 IN
  [b EXCEPT !.failures = failures,
            !.last_failure_time = t,
            !.state = IF b.state = "half_open" THEN "open"
                      ELSE IF failures > FailureThreshold THEN "open"
                      ELSE b.state]

record_failure(b, t) ==
  LET failures == b.failures + 1 IN
  [b EXCEPT !.failures = failures,
            !.last_failure_time = t,
            !.state = IF b.state = "half_open" THEN "open"
                      ELSE IF failures >= FailureThreshold THEN "open"
                      ELSE b.state]

\* can_execute: the value it returns
can_execute(b, t) ==
  IF b.state = "closed" THEN TRUE
  ELSE IF b.state = "open"
    THEN IF b.last_failure_time = NoTime THEN TRUE
         ELSE t - b.last_failure_time >= RecoveryTimeout
  ELSE b.half_open_calls < HalfOpenMaxCalls

\* variant: the breaker stays open when the recovery timeout has elapsed
after_can_execute_stays_open(b, t) ==
  IF b.state = "half_open" /\ b.half_open_calls < HalfOpenMaxCalls
    THEN [b EXCEPT !.half_open_calls = b.half_open_calls + 1]
    ELSE b

\* can_execute: the breaker it leaves behind
after_can_execute(b, t) ==
  IF b.state = "closed" THEN b
  ELSE IF b.state = "open"
    THEN IF b.last_failure_time = NoTime THEN b
         ELSE IF t - b.last_failure_time >= RecoveryTimeout
           THEN [b EXCEPT !.state = "half_open", !.half_open_calls = 0]
           ELSE b
  ELSE IF b.half_open_calls < HalfOpenMaxCalls
    THEN [b EXCEPT !.half_open_calls = b.half_open_calls + 1]
    ELSE b

\* history: the branch of can_execute that admitted a request
AdmittedVia(b, t) ==
  IF b.state = "closed" THEN "closed"
  ELSE IF b.state = "open" THEN "recovery" ELSE "half_open"

reset(b) == NewBreaker

\* ------------------------------------------------------ ResilientHTTPClient
\* variant: no stop condition
RetryAgainNoStop(result, attempt_number) == result \in RetryableResults

\* the tenacity policy of _request_with_retry: retry the exception types of
\* retry_if_exception_type unless stop_after_attempt says stop
RetryAgain(result, attempt_number) ==
  result \in RetryableResults /\ attempt_number < StopAfterAttempt

InitClient ==
  /\ participants = <<>>
  /\ config = CHOOSE c \in Configs : TRUE
  /\ has_send = FALSE
  /\ pc = "off"
  /\ tasks = <<>>
  /\ task_idx = 0
  /\ seq_idx = 0
  /\ eval_idx = 0
  /\ inflight = {}
  /\ responses = [p \in Pids |-> NoResponse]
  /\ all_results = [p \in Pids |-> <<>>]
  /\ evaluations_done = 0
  /\ stream = <<>>
  /\ artifact = NoArtifact
  /\ raised = NoError
  /\ dispatched = {}
  /\ dispatch_raised = {}
  /\ circuit_breakers = [h \in Hosts |-> NoBreaker]
  /\ now = 0
  /\ req = [r \in Reqs |-> IdleRequest]
  /\ last = NoCall
  /\ answers = [h \in Hosts |-> NoAnswers]
  /\ LibOff

\* request, lines 270-277: look up the breaker and ask it; a refusal raises
\* CircuitOpenError(host) before anything is sent
Request(r, h) ==
  /\ req[r].pc = "idle"
  /\ LET circuit == get_circuit_breaker(circuit_breakers, h) IN
     /\ circuit_breakers' =
          [circuit_breakers EXCEPT ![h] = after_can_execute(circuit, now)]
     /\ IF can_execute(circuit, now)
          THEN /\ req' = [req EXCEPT ![r] =
                    [pc |-> "sending", host |-> h, attempts |-> 0,
                     via |-> AdmittedVia(circuit, now), resp |-> "none"]]
               /\ UNCHANGED last
          ELSE /\ last' = [host |-> h, attempts |-> 0, resp |-> "none",
                           outcome |-> "circuit_open"]
               /\ UNCHANGED req
  /\ UNCHANGED <<orchVars, libVars, now, answers>>

\* request, lines 279-285 with _request_with_retry: one HTTP attempt; success
\* is recorded and returned, a failure is retried or recorded and raised
Attempt(r, result) ==
  /\ req[r].pc = "sending"
  /\ LET h == req[r].host
         attempt_number == req[r].attempts + 1
         ends == result = "ok" \/ ~ RetryAgain(result, attempt_number)
         upto(n) == IF n < FailureThreshold THEN n + 1 ELSE n
     IN /\ answers' = [answers EXCEPT
             ![h].n5xx = IF result = "http5xx" THEN upto(@) ELSE 0,
             ![h].calls = IF ~ ends THEN @
                          ELSE IF result = "http5xx" THEN upto(@) ELSE 0]
        /\ IF result = "ok"
          THEN /\ circuit_breakers' =
                    [circuit_breakers EXCEPT ![h] = record_success(@)]
               /\ req' = [req EXCEPT ![r] = IdleRequest]
               /\ last' = [host |-> h, attempts |-> attempt_number,
                           resp |-> result, outcome |-> "ok"]
          ELSE IF RetryAgain(result, attempt_number)
            THEN /\ req' = [req EXCEPT ![r].attempts = attempt_number,
                                       ![r].resp = result]
                 /\ UNCHANGED <<circuit_breakers, last>>
            ELSE /\ circuit_breakers' =
                      [circuit_breakers EXCEPT ![h] = record_failure(@, now)]
                 /\ req' = [req EXCEPT ![r] = IdleRequest]
                 /\ last' = [host |-> h, attempts |-> attempt_number,
                             resp |-> result, outcome |-> "error"]
  /\ UNCHANGED <<orchVars, libVars, now>>

\* reset_circuit: manual reset of the breaker of a known host
ResetCircuit(h) ==
  /\ circuit_breakers[h] # NoBreaker
  /\ circuit_breakers[h] # NewBreaker
  /\ circuit_breakers' = [circuit_breakers EXCEPT ![h] = reset(@)]
  /\ answers' = [answers EXCEPT ![h] = NoAnswers]
  /\ UNCHANGED <<orchVars, libVars, now, req, last>>

\* the monotonic clock advances
Tick ==
  /\ now + TimeStep <= MaxTime
  /\ now' = now + TimeStep
  /\ UNCHANGED <<orchVars, libVars, circuit_breakers, req, last, answers>>

NextClient ==
  \/ \E r \in Reqs, h \in CalledHosts : Request(r, h)
  \/ \E r \in Reqs, result \in AttemptResults : Attempt(r, result)
  \/ \E h \in CalledHosts : ResetCircuit(h)
  \/ Tick

SpecClient == InitClient /\ [][NextClient]_vars

\* request, lines 279-285: the task awaiting _request_with_retry is cancelled;
\* CancelledError is not an Exception, so neither record_success nor
\* record_failure runs and the error leaves request
Cancel(r) ==
  /\ req[r].pc = "sending"
  /\ req' = [req EXCEPT ![r] = IdleRequest]
  /\ last' = [host |-> req[r].host, attempts |-> req[r].attempts,
              resp |-> req[r].resp, outcome |-> "cancelled"]
  /\ UNCHANGED <<orchVars, libVars, circuit_breakers, now, answers>>

\* the client with callers that can be cancelled
NextClientCancel ==
  \/ NextClient
  \/ \E r \in Reqs : Cancel(r)

SpecClientCancel == InitClient /\ [][NextClientCancel]_vars

\* ------------------------------------------- the client calling two hosts
\* one caller at a time, requests to either host
NextHosts ==
  \/ \E h \in Hosts : Request("r1", h)
  \/ \E result \in AttemptResults : Attempt("r1", result)
  \/ \E h \in Hosts : ResetCircuit(h)
  \/ Tick

SpecHosts == InitClient /\ [][NextHosts]_vars

\* ------------------------------------ CircuitBreaker, methods called directly
\* one CircuitBreaker after __init__; nothing else of the client is used
InitBreaker ==
  /\ circuit_breakers =
       [h \in Hosts |-> IF h \in CalledHosts THEN NewBreaker ELSE NoBreaker]
  /\ now = 0
  /\ req = [r \in Reqs |-> IdleRequest]
  /\ last = NoCall
  /\ answers = [h \in Hosts |-> NoAnswers]
  /\ OrchestratorOff /\ LibOff

CanExecute(h) ==
  /\ circuit_breakers' =
       [circuit_breakers EXCEPT ![h] = after_can_execute(@, now)]
  /\ UNCHANGED <<orchVars, libVars, now, req, last, answers>>

RecordSuccess(h) ==
  /\ circuit_breakers' = [circuit_breakers EXCEPT ![h] = record_success(@)]
  /\ UNCHANGED <<orchVars, libVars, now, req, last, answers>>

RecordFailure(h) ==
  /\ circuit_breakers[h].failures < MaxFailures
  /\ circuit_breakers' = [circuit_breakers EXCEPT ![h] = record_failure(@, now)]
  /\ UNCHANGED <<orchVars, libVars, now, req, last, answers>>

Reset(h) ==
  /\ circuit_breakers' = [circuit_breakers EXCEPT ![h] = reset(@)]
  /\ UNCHANGED <<orchVars, libVars, now, req, last, answers>>

NextBreaker ==
  \/ \E h \in CalledHosts : CanExecute(h)
  \/ \E h \in CalledHosts : RecordSuccess(h)
  \/ \E h \in CalledHosts : RecordFailure(h)
  \/ \E h \in CalledHosts : Reset(h)
  \/ Tick

SpecBreaker == InitBreaker /\ [][NextBreaker]_vars

\* ------------------------------------------------------ SQLErrorClassifier
\* no rule of a group applied
Undecided == Classification("undecided", "undecided", 0)

\* validation and execution messages, one or none per pattern group
ErrorTexts ==
  { "no such table: customerz", "no such column: nam",
    "ambiguous column name: id", "syntax error near FRM",
    "invalid join specification", "operator does not exist",
    "no such function: foo", "missing group by", "division by zero",
    "disk full" }

\* the pattern groups of _compiled_patterns with a regex that finds a match
\* in a message (re.IGNORECASE search)
PatternsMatched(text) ==
  CASE text = "no such table: customerz" -> {"wrong_table"}
    [] text = "no such column: nam" -> {"wrong_column"}
    [] text = "ambiguous column name: id" -> {"wrong_column", "join_error"}
    [] text = "syntax error near FRM" -> {"syntax_error"}
    [] text = "invalid join specification" -> {"join_error"}
    [] text = "operator does not exist" -> {"condition_filter_error"}
    [] text = "no such function: foo" -> {"dialect_function_error"}
    [] text = "missing group by" -> {"incorrect_planning"}
    [] text = "division by zero" -> {"incorrect_data_calculation"}
    [] OTHER -> {}

\* validation_errors + [error_message], the messages joined into error_text
all_errors(a) ==
  a.validation_errors \o (IF a.error_message = NoError THEN <<>>
                          ELSE <<a.error_message>>)

\* pattern.search(error_text) succeeds for a pattern of the group
Search(key, a) ==
  \E i \in DOMAIN all_errors(a) : key \in PatternsMatched(all_errors(a)[i])

\* submitted and gold queries: the tables after FROM/JOIN, the select list
NoGold == "none"
SqlTables(sql) ==
  IF sql = "SELECT name FROM orders" THEN {"orders"} ELSE {"customers"}
SqlColumns(sql) == IF sql = "SELECT id FROM customers" THEN "id" ELSE "name"

\* _analyze_schema_linking: the issues found
analyze_schema_linking(sql_submitted, gold_sql) ==
  (IF SqlTables(gold_sql) \ SqlTables(sql_submitted) # {}
     THEN <<"Missing tables">> ELSE <<>>)
  \o (IF SqlTables(sql_submitted) \ SqlTables(gold_sql) # {}
        THEN <<"Unexpected tables">> ELSE <<>>)
  \o (IF SqlColumns(sql_submitted) # SqlColumns(gold_sql)
        THEN <<"Column selection differs from expected">> ELSE <<>>)

\* classify, lines 294-302
no_error_case(a) ==
  /\ a.execution_success
  /\ a.validation_errors = <<>>
  /\ a.match_score # NoScore
  /\ a.match_score >= 9500

\* classify, lines 308-326
phantom_rules(a) ==
  IF a.phantom_tables # <<>>
    THEN Classification("schema_error", "wrong_table", 95)
  ELSE IF a.phantom_columns # <<>>
    THEN Classification("schema_error", "wrong_column", 95)
  ELSE Undecided

\* classify, lines 328-422
pattern_rules(a) ==
  IF Search("wrong_table", a)
    THEN Classification("schema_error", "wrong_table", 90)
  ELSE IF Search("wrong_column", a)
    THEN Classification("schema_error", "wrong_column", 90)
  ELSE IF Search("syntax_error", a)
    THEN Classification("sql_error", "syntax_error", 90)
  ELSE IF Search("join_error", a)
    THEN Classification("sql_error", "join_error", 85)
  ELSE IF Search("condition_filter_error", a)
    THEN Classification("sql_error", "condition_filter_error", 85)
  ELSE IF Search("dialect_function_error", a)
    THEN Classification("sql_error", "incorrect_dialect_function_usage", 85)
  ELSE IF Search("incorrect_planning", a)
    THEN Classification("analysis_error", "incorrect_planning", 80)
  ELSE IF Search("incorrect_data_calculation", a)
    THEN Classification("analysis_error", "incorrect_data_calculation", 80)
  ELSE Undecided

\* classify, lines 424-473
late_rules(a) ==
  IF /\ a.gold_sql # NoGold
     /\ analyze_schema_linking(a.sql_submitted, a.gold_sql) # <<>>
    THEN Classification("schema_error", "wrong_schema_linking", 70)
  ELSE IF a.match_score # NoScore /\ a.match_score < 5000 /\ a.execution_success
    THEN Classification("analysis_error", "erroneous_data_analysis", 70)
  ELSE IF ~ a.execution_success /\ a.error_message # NoError
    THEN Classification("sql_error", "syntax_error", 50)
  ELSE IF a.match_score # NoScore /\ 5000 <= a.match_score /\ a.match_score < 8000
    THEN Classification("analysis_error", "incorrect_planning", 60)
  ELSE Classification("no_error", "no_error", 50)

\* variant: the error text is searched before the phantom lists are looked at
classify_patterns_first(a) ==
  IF no_error_case(a) THEN Classification("no_error", "no_error", 100)
  ELSE IF pattern_rules(a) # Undecided THEN pattern_rules(a)
  ELSE IF phantom_rules(a) # Undecided THEN phantom_rules(a)
  ELSE late_rules(a)

\* SQLErrorClassifier.classify
classify(a) ==
  IF no_error_case(a) THEN Classification("no_error", "no_error", 100)
  ELSE IF phantom_rules(a) # Undecided THEN phantom_rules(a)
  ELSE IF pattern_rules(a) # Undecided THEN pattern_rules(a)
  ELSE late_rules(a)

\* the arguments of classify
ClassifyArgs ==
  [ sql_submitted : {"SELECT name FROM customers", "SELECT name FROM orders"},
    gold_sql : {NoGold, "SELECT name FROM customers"},
    execution_success : BOOLEAN,
    validation_errors : {<<>>} \cup { <<t>> : t \in {"no such column: nam", "disk full"} },
    phantom_tables : {<<>>, <<"customerz">>},
    phantom_columns : {<<>>, <<"nam">>},
    error_message : {NoError} \cup ErrorTexts,
    match_score : {NoScore, 3000, 6000, 9000, 9500, 10000} ]

InitClassify ==
  /\ classify_args \in ClassifyArgs
  /\ classification = NoClassification
  /\ OrchestratorOff /\ ClientOff /\ ComparatorOff /\ EvaluateOff /\ AgentOff
  /\ ProgressOff

\* one call of classify
Classify ==
  /\ classification = NoClassification
  /\ classification' = classify(classify_args)
  /\ UNCHANGED <<progress_run, orchVars, clientVars, classify_args, compare_args, comparison,
                 eval_args, eval_result, executor, assessments>>

NextClassify == Classify

SpecClassify == InitClassify /\ [][NextClassify]_vars

\* ------------------------------------------------- DefaultResultComparator
\* cell values: None and numbers, neighbours being within the tolerance of
\* each other (strings and NaN are not in this universe)
CellValues == {NoneValue, 0, 1, 2}
\* rows: column -> value mappings without columns, with x, or with x and y
KeySets == {{}, {"x"}, {"x", "y"}}
Rows == { r \in UNION { [ks -> CellValues] : ks \in KeySets } :
            "y" \in DOMAIN r => r["y"] = 0 }
\* row lists, well-formed (one key set) or not
RowLists == UNION { [1..n -> Rows] : n \in 0..MaxRows }

Abs(n) == IF n < 0 THEN -n ELSE n
\* round(num / den), den > 0
Round(num, den) == (2 * num + den) \div (2 * den)

\* row.get(col)
Get(row, col) == IF col \in DOMAIN row THEN row[col] ELSE NoneValue

\* _values_match
values_match(actual, expected) ==
  IF actual = NoneValue /\ expected = NoneValue THEN TRUE
  ELSE IF actual = NoneValue \/ expected = NoneValue THEN FALSE
  ELSE Abs(actual - expected) <= NumericTolerance

\* _rows_match
rows_match(actual_row, expected_row, columns) ==
  \A col \in columns : values_match(Get(actual_row, col), Get(expected_row, col))

\* the inner loop of _compare_rows_unordered: the first expected row not yet
\* matched that matches the actual row, 0 when there is none
FirstMatch(actual_row, expected, columns, expected_matched) ==
  LET cands == { i \in DOMAIN expected :
                   /\ i \notin expected_matched
                   /\ rows_match(actual_row, expected[i], columns) }
  IN IF cands = {} THEN 0
     ELSE CHOOSE i \in cands : \A j \in cands : i <= j

\* the outer loop of _compare_rows_unordered, from actual row k on
RECURSIVE GreedyFrom(_, _, _, _, _)
GreedyFrom(actual, expected, columns, k, expected_matched) ==
  IF k > Len(actual) THEN Cardinality(expected_matched)
  ELSE LET i == FirstMatch(actual[k], expected, columns, expected_matched)
       IN GreedyFrom(actual, expected, columns, k + 1,
                     IF i = 0 THEN expected_matched
                     ELSE expected_matched \cup {i})

\* variant: a matched expected row is not marked, and can be matched again
compare_rows_unordered_rematch(actual, expected, columns) ==
  Cardinality({ k \in DOMAIN actual :
                  FirstMatch(actual[k], expected, columns, {}) # 0 })

\* _compare_rows_unordered: matched_rows
compare_rows_unordered(actual, expected, columns) ==
  GreedyFrom(actual, expected, columns, 1, {})

\* _compare_rows_ordered: matched_rows
compare_rows_ordered(actual, expected, columns) ==
  LET min_len == IF Len(actual) < Len(expected) THEN Len(actual)
                 ELSE Len(expected)
  IN Cardinality({ i \in 1..min_len : rows_match(actual[i], expected[i], columns) })

\* _compare_rows: matched_rows (row_match_ratio is matched_rows / len(expected))
compare_rows(ignore_row_order, actual, expected, columns) ==
  IF columns = {} THEN 0
  ELSE IF ignore_row_order THEN compare_rows_unordered(actual, expected, columns)
  ELSE compare_rows_ordered(actual, expected, columns)

\* _calculate_match_score, the ratios given as fractions
calculate_match_score(col_num, col_den, row_num, row_den, rows_eq, cols_eq) ==
  Round(10000 * (50 * row_num * col_den + 30 * col_num * row_den)
          + 10000 * row_den * col_den * ((IF rows_eq THEN 10 ELSE 0)
                                         + (IF cols_eq THEN 10 ELSE 0)),
        100 * row_den * col_den)

\* DefaultResultComparator.compare
compare(ignore_row_order, actual, expected) ==
  IF actual = <<>> /\ expected = <<>> THEN ComparisonResult(TRUE, 10000, TRUE, TRUE)
  ELSE IF actual = <<>> THEN ComparisonResult(FALSE, 0, FALSE, FALSE)
  ELSE IF expected = <<>> THEN ComparisonResult(FALSE, 0, FALSE, FALSE)
  ELSE
    LET actual_columns == DOMAIN actual[1]
        expected_columns == DOMAIN expected[1]
        column_count_match ==
          Cardinality(actual_columns) = Cardinality(expected_columns)
        missing_columns == expected_columns \ actual_columns
        extra_columns == actual_columns \ expected_columns
        common_columns == actual_columns \cap expected_columns
        row_count_match == Len(actual) = Len(expected)
        col_num == IF expected_columns # {} THEN Cardinality(common_columns)
                   ELSE IF actual_columns = {} THEN 1 ELSE 0
        col_den == IF expected_columns # {} THEN Cardinality(expected_columns)
                   ELSE 1
        matched_rows ==
          compare_rows(ignore_row_order, actual, expected, common_columns)
        match_score ==
          calculate_match_score(col_num, col_den, matched_rows, Len(expected),
                                row_count_match, column_count_match)
    IN ComparisonResult(/\ match_score >= 9900
                        /\ row_count_match
                        /\ column_count_match
                        /\ missing_columns = {}
                        /\ extra_columns = {},
                        match_score, row_count_match, column_count_match)

\* the settings and arguments of one call of compare
CompareArgs ==
  [ ignore_row_order : BOOLEAN, actual : RowLists, expected : RowLists ]

InitCompare ==
  /\ compare_args \in CompareArgs
  /\ comparison = NoComparison
  /\ OrchestratorOff /\ ClientOff /\ ClassifierOff /\ EvaluateOff /\ AgentOff
  /\ ProgressOff

\* one call of compare
Compare ==
  /\ comparison = NoComparison
  /\ comparison' = compare(compare_args.ignore_row_order, compare_args.actual,
                           compare_args.expected)
  /\ UNCHANGED <<progress_run, orchVars, clientVars, classify_args, classification,
                 compare_args, eval_args, eval_result, executor, assessments>>

NextCompare == Compare

SpecCompare == InitCompare /\ [][NextCompare]_vars

\* ------------------------------------------------------------ _evaluate_sql
\* scores are in units of 1/10000, weights in 1/100, overall in 1/1000000

\* MultiDimensionalScore.weights
Weights ==
  [ correctness |-> 40, efficiency |-> 20, safety |-> 25,
    result_completeness |-> 15 ]

\* MultiDimensionalScore.compute_overall
compute_overall(correctness, efficiency, safety, result_completeness) ==
  Weights.correctness * correctness + Weights.efficiency * efficiency
    + Weights.safety * safety + Weights.result_completeness * result_completeness

\* the scorer's efficiency: piecewise-linear decay over the execution time
efficiency_score(success, time_ms) ==
  IF ~ success THEN 0
  ELSE IF time_ms <= 10 THEN 10000
  ELSE IF time_ms <= 100 THEN 10000 - (2000 * (time_ms - 10)) \div 90
  ELSE IF time_ms <= 1000 THEN 8000 - (3000 * (time_ms - 100)) \div 900
  ELSE IF 5000 - (time_ms - 1000) < 0 THEN 0
  ELSE 5000 - (time_ms - 1000)

\* the scorer's validation score
validation_score(is_valid, validation_errors, warnings) ==
  IF is_valid THEN (IF 10000 - 1000 * warnings < 0 THEN 0
                    ELSE 10000 - 1000 * warnings)
  ELSE IF Len(validation_errors) = 0 THEN 5000
  ELSE IF Len(validation_errors) = 1 THEN 3000
  ELSE 1000

\* a validation error holds one of the hallucination keywords ("no such" ...)
HallucinationKeyword(text) ==
  text \in {"no such table: customerz", "no such column: nam",
            "no such function: foo", "invalid join specification",
            "operator does not exist"}

\* the scorer's hallucination score
hallucination_score(is_valid, validation_errors) ==
  IF is_valid /\ validation_errors = <<>> THEN 10000
  ELSE LET hits == Cardinality({ i \in DOMAIN validation_errors :
                                   HallucinationKeyword(validation_errors[i]) })
       IN IF hits = 0 THEN 10000 ELSE IF hits = 1 THEN 4000 ELSE 1000

\* the scorer's completeness: insights are counted by what they mention
completeness_score(success, insights, rows_returned) ==
  IF ~ success THEN 0
  ELSE LET penalty == 2000 * Cardinality({ i \in DOMAIN insights : insights[i] = "empty" })
                      + 1000 * Cardinality({ i \in DOMAIN insights : insights[i] = "truncated" })
           base == 10000 - penalty
           bonus == IF rows_returned > 0
                      THEN (IF base + 1000 > 10000 THEN 10000 ELSE base + 1000)
                      ELSE base
       IN IF bonus < 0 THEN 0 ELSE bonus

\* ScoreSummary
ScoreSummary(overall, correctness, efficiency, safety, completeness, hall) ==
  [ overall |-> overall, correctness |-> correctness,
    efficiency |-> efficiency, safety |-> safety,
    completeness |-> completeness, hallucination_score |-> hall ]

\* scorer.score(comparison, execution_result, ...) of the active preset
score(cmp, r) ==
  LET correctness == IF cmp.is_match THEN 10000 ELSE cmp.match_score
      efficiency == efficiency_score(r.success, r.execution_time_ms)
      hallucination == hallucination_score(r.is_valid, r.validation_errors)
      validation ==
        validation_score(r.is_valid, r.validation_errors, r.validation_warnings)
      safety == (4 * validation + 6 * hallucination) \div 10
      completeness == completeness_score(r.success, r.insights, Len(r.data))
  IN ScoreSummary(compute_overall(correctness, efficiency, safety, completeness),
                  correctness, efficiency, safety, completeness, hallucination)

\* a field that holds Python's None
PyNone == "None"

\* TaskResult; error_category and error_subcategory default to None
TaskResult(a, scores, error_message) ==
  [ task_id |-> "t1", sql_submitted |-> a.sql, gold_sql |-> a.gold_sql,
    scores |-> scores, execution_success |-> a.success,
    validation_errors |-> a.validation_errors,
    phantom_tables |-> a.phantom_tables,
    phantom_columns |-> a.phantom_columns,
    error_message |-> error_message,
    error_category |-> PyNone, error_subcategory |-> PyNone ]

\* the comparator of _get_comparator: ignore_row_order=True
comparator_compare(actual, expected) == compare(TRUE, actual, expected)

\* "if expected_results:" - the task has the key and its list is not empty
Truthy(expected_results) ==
  expected_results.present /\ expected_results.rows # <<>>

\* _evaluate_sql(sql, task), a standing for what process_query returned for
\* the sql (data: the rows) and for task.get("expected_results")
evaluate_sql_full(a) ==
  IF ~ a.success
    THEN TaskResult(a,
           ScoreSummary(0, 0, 0,
                        IF a.phantom_tables # <<>> \/ a.phantom_columns # <<>>
                          THEN 3600 ELSE 5000,
                        0,
                        IF a.phantom_tables # <<>> THEN 0 ELSE 5000),
           a.error)
    ELSE LET cmp == IF Truthy(a.expected_results)
                      THEN comparator_compare(a.data, a.expected_results.rows)
                    ELSE ComparisonResult(TRUE, 10000, TRUE, TRUE)
         IN TaskResult(a, score(cmp, a), NoError)

\* result sets of the reference database and of the catalog
EvalRows == {<<>>, <<[x |-> 0]>>, <<[x |-> 2]>>}

\* what the executor and the task can hand to _evaluate_sql for a non-empty
\* sql: a failed execution carries an error text and no rows
EvalArgs ==
  { a \in [ sql : {"SELECT name FROM customers", "SELECT name FROM orders"},
            gold_sql : {NoGold, "SELECT name FROM customers"},
            success : BOOLEAN,
            error : {NoError, "no such table: customerz", "disk full"},
            is_valid : BOOLEAN,
            validation_errors : {<<>>, <<"no such column: nam">>, <<"disk full">>},
            validation_warnings : {0, 1},
            phantom_tables : {<<>>, <<"customerz">>},
            phantom_columns : {<<>>, <<"nam">>},
            execution_time_ms : {5, 100, 1000, 6000},
            data : EvalRows,
            insights : {<<>>, <<"empty">>},
            expected_results : [present : BOOLEAN, rows : EvalRows] ] :
      /\ a.success <=> a.error = NoError
      /\ a.is_valid => a.validation_errors = <<>>
      /\ a.data # <<>> => a.success
      /\ ~ a.expected_results.present => a.expected_results.rows = <<>> }

InitEval ==
  /\ eval_args \in EvalArgs
  /\ eval_result = NoTaskResult
  /\ OrchestratorOff /\ ClientOff /\ ClassifierOff /\ ComparatorOff /\ AgentOff
  /\ ProgressOff

\* one call of _evaluate_sql
EvaluateSql ==
  /\ eval_result = NoTaskResult
  /\ eval_result' = evaluate_sql_full(eval_args)
  /\ UNCHANGED <<progress_run, orchVars, clientVars, classify_args, classification,
                 compare_args, comparison, eval_args, executor, assessments>>

NextEval == EvaluateSql

SpecEval == InitEval /\ [][NextEval]_vars

\* ------------------------------------- assessments of one agent, one executor
\* the assessments handled by one SQLBenchmarkGreenAgent (one context)
AssessmentIds == {"A1", "A2"}

\* _setup_sample_data: the ids of the rows inserted into customers
SampleCustomers == 1..5

\* SQL a candidate can return
Statements ==
  {"SELECT id FROM customers", "DELETE FROM customers",
   "SELECT id FROM customerz"}

\* executor.process_query(sql) on a database holding the customers db: the
\* statement is run; success, the rows returned and the database afterwards
process_query(db, sql) ==
  CASE sql = "SELECT id FROM customers" ->
         [success |-> TRUE, data |-> db, db |-> db]
    [] sql = "DELETE FROM customers" ->
         [success |-> TRUE, data |-> {}, db |-> {}]
    [] OTHER ->
         [success |-> FALSE, data |-> {}, db |-> db]

\* _get_executor: the executor is created, with the sample data, only when
\* the agent has none yet
get_executor(e) == IF e = NoExecutor THEN [db |-> SampleCustomers] ELSE e

\* what a TaskResult takes from the execution
Executed(sql, r) ==
  [ sql_submitted |-> sql, execution_success |-> r.success,
    rows_returned |-> Cardinality(r.data) ]

\* the agent after __init__, no assessment requested yet; alone and
\* alone_results follow the same assessment on an agent that runs no other
InitShared ==
  /\ executor = NoExecutor
  /\ assessments = [ i \in AssessmentIds |->
                       [ pc |-> "idle", all_results |-> <<>>,
                         alone |-> NoExecutor, alone_results |-> <<>> ] ]
  /\ OrchestratorOff /\ ClientOff /\ ClassifierOff /\ ComparatorOff /\ EvaluateOff
  /\ ProgressOff

\* handle_assessment is called for assessment i
StartAssessment(i) ==
  /\ assessments[i].pc = "idle"
  /\ assessments' = [assessments EXCEPT ![i].pc = "running"]
  /\ UNCHANGED <<progress_run, orchVars, clientVars, classify_args, classification,
                 compare_args, comparison, eval_args, eval_result, executor>>

\* assessment i evaluates one submitted query on the agent's executor
EvaluateOn(i, sql) ==
  /\ assessments[i].pc = "running"
  /\ Len(assessments[i].all_results) < MaxEvals
  /\ LET shared == get_executor(executor)
         own == get_executor(assessments[i].alone)
         result == process_query(shared.db, sql)
         result_alone == process_query(own.db, sql)
     IN /\ executor' = [db |-> result.db]
        /\ assessments' =
             [assessments EXCEPT
                ![i].all_results = Append(@, Executed(sql, result)),
                ![i].alone = [db |-> result_alone.db],
                ![i].alone_results = Append(@, Executed(sql, result_alone))]
  /\ UNCHANGED <<progress_run, orchVars, clientVars, classify_args, classification,
                 compare_args, comparison, eval_args, eval_result>>

\* assessment i builds its artifact from all_results and completes
FinishAssessment(i) ==
  /\ assessments[i].pc = "running"
  /\ assessments[i].all_results # <<>>
  /\ assessments' = [assessments EXCEPT ![i].pc = "done"]
  /\ UNCHANGED <<progress_run, orchVars, clientVars, classify_args, classification,
                 compare_args, comparison, eval_args, eval_result, executor>>

NextShared ==
  \/ \E i \in AssessmentIds : StartAssessment(i)
  \/ \E i \in AssessmentIds, sql \in Statements : EvaluateOn(i, sql)
  \/ \E i \in AssessmentIds : FinishAssessment(i)

SpecShared == InitShared /\ [][NextShared]_vars

\* ------------------------------------------- the progress values, as floats
\* A float is held exactly: a natural number of units of 2^-FractionBits,
\* written in binary, least significant bit first, without leading zero bits.
FractionBits == 68
\* significand of a Python float (IEEE 754 binary64)
MantissaBits == 53

RECURSIVE NatBits(_)
NatBits(n) == IF n = 0 THEN <<>> ELSE <<n % 2>> \o NatBits(n \div 2)

RECURSIVE Strip(_)
Strip(b) ==
  IF b = <<>> \/ b[Len(b)] = 1 THEN b ELSE Strip(SubSeq(b, 1, Len(b) - 1))

ShiftLeft(b, n) == IF b = <<>> THEN <<>> ELSE [i \in 1..n |-> 0] \o b
ShiftRight(b, n) == SubSeq(b, n + 1, Len(b))

\* the first n bits of b, zero bits appended where b is shorter
Pad(b, n) == [i \in 1..n |-> IF i <= Len(b) THEN b[i] ELSE 0]

\* a + b + carry for a and b of one length: the low half first, its carry
\* into the high half (the carry is looked at first, so that it is computed
\* before the half it goes into; the same in MulCarry and DivRemFrom)
RECURSIVE AddCarry(_, _, _)
AddCarry(a, b, carry) ==
  IF carry < 0 \/ a = <<>> THEN [bits |-> <<>>, carry |-> carry]
  ELSE IF Len(a) = 1
    THEN [bits |-> <<(a[1] + b[1] + carry) % 2>>,
          carry |-> (a[1] + b[1] + carry) \div 2]
  ELSE LET m == Len(a) \div 2
           low == AddCarry(SubSeq(a, 1, m), SubSeq(b, 1, m), carry)
           high == AddCarry(SubSeq(a, m + 1, Len(a)), SubSeq(b, m + 1, Len(b)),
                            low.carry)
       IN [bits |-> low.bits \o high.bits, carry |-> high.carry]

Add(a, b) ==
  LET n == IF Len(a) < Len(b) THEN Len(b) ELSE Len(a)
      sum == AddCarry(Pad(a, n), Pad(b, n), 0)
  IN Strip(sum.bits \o NatBits(sum.carry))

RECURSIVE MulCarry(_, _, _)
MulCarry(b, k, carry) ==
  IF carry < 0 \/ b = <<>> THEN [bits |-> <<>>, carry |-> carry]
  ELSE IF Len(b) = 1
    THEN [bits |-> <<(b[1] * k + carry) % 2>>,
          carry |-> (b[1] * k + carry) \div 2]
  ELSE LET m == Len(b) \div 2
           low == MulCarry(SubSeq(b, 1, m), k, carry)
           high == MulCarry(SubSeq(b, m + 1, Len(b)), k, low.carry)
       IN [bits |-> low.bits \o high.bits, carry |-> high.carry]

\* b * k for a small natural k
MulSmall(b, k) ==
  LET product == MulCarry(b, k, 0) IN Strip(product.bits \o NatBits(product.carry))

\* quotient and remainder of b by a small positive n, r being the remainder
\* left by the bits above b: the high half first, its remainder into the low
RECURSIVE DivRemFrom(_, _, _)
DivRemFrom(b, n, r) ==
  IF r < 0 \/ b = <<>> THEN [q |-> <<>>, r |-> r]
  ELSE IF Len(b) = 1
    THEN [q |-> <<(2 * r + b[1]) \div n>>, r |-> (2 * r + b[1]) % n]
  ELSE LET m == Len(b) \div 2
           high == DivRemFrom(SubSeq(b, m + 1, Len(b)), n, r)
           low == DivRemFrom(SubSeq(b, 1, m), n, high.r)
       IN [q |-> low.q \o high.q, r |-> low.r]

DivRem(b, n) == DivRemFrom(b, n, 0)

\* a <= b
Leq(a, b) ==
  \/ a = b
  \/ Len(a) < Len(b)
  \/ /\ Len(a) = Len(b)
     /\ \E i \in 1..Len(a) :
          a[i] < b[i] /\ \A j \in (i + 1)..Len(a) : a[j] = b[j]

\* round to nearest, ties to even, keeping MantissaBits significant bits;
\* inexact says that the exact value lies above b by less than one unit
RoundToFloat(b, inexact) ==
  IF Len(b) <= MantissaBits THEN b
  ELSE LET d == Len(b) - MantissaBits
           keep == ShiftRight(b, d)
           rest == inexact \/ \E i \in 1..(d - 1) : b[i] = 1
           up == b[d] = 1 /\ (rest \/ keep[1] = 1)
       IN ShiftLeft(IF up THEN Add(keep, <<1>>) ELSE keep, d)

\* the bits of a hexadecimal numeral, most significant digit first
RECURSIVE HexBits(_)
HexBits(ds) ==
  IF ds = <<>> THEN <<>>
  ELSE LET d == ds[Len(ds)]
       IN <<d % 2, (d \div 2) % 2, (d \div 4) % 2, d \div 8>>
            \o HexBits(SubSeq(ds, 1, Len(ds) - 1))

\* the float with significand ds (hexadecimal) and exponent exp: ds * 2^exp
Float(ds, exp) == ShiftLeft(Strip(HexBits(ds)), FractionBits + exp)

\* the float literals of handle_assessment, float.hex() of each
Float_0_0 == <<>>
Float_0_05 == Float(<<1, 9, 9, 9, 9, 9, 9, 9, 9, 9, 9, 9, 9, 10>>, -57)
Float_0_1 == Float(<<1, 9, 9, 9, 9, 9, 9, 9, 9, 9, 9, 9, 9, 10>>, -56)
Float_0_85 == Float(<<1, 11, 3, 3, 3, 3, 3, 3, 3, 3, 3, 3, 3, 3>>, -53)
Float_0_95 == Float(<<1, 14, 6, 6, 6, 6, 6, 6, 6, 6, 6, 6, 6, 6>>, -53)
Float_1_0 == Float(<<1>>, 0)

\* x * k and x / n for a float x and an int, each rounded once
FloatMul(x, k) == RoundToFloat(MulSmall(x, k), FALSE)
FloatDiv(x, n) == LET d == DivRem(x, n) IN RoundToFloat(Strip(d.q), d.r # 0)
FloatAdd(x, y) == RoundToFloat(Add(x, y), FALSE)

\* line 464: 0.1 + (0.85 * evaluations_done / total_evaluations)
evaluation_progress(done, total_evaluations) ==
  FloatAdd(Float_0_1, FloatDiv(FloatMul(Float_0_85, done), total_evaluations))

\* --------------------------------- handle_assessment, its progress values
\* Every dispatch is taken to return and every evaluation to finish; what is
\* followed is the TaskUpdate each step yields.
InitProgress ==
  /\ \E t \in 0..MaxProgressTasks, p \in 0..MaxProgressParticipants :
       progress_run = [NoProgressRun EXCEPT !.pc = "start", !.len_tasks = t,
                                            !.len_participants = p]
  /\ OrchestratorOff /\ ClientOff /\ ClassifierOff /\ ComparatorOff
  /\ EvaluateOff /\ AgentOff

\* lines 349-358
YieldSubmitted ==
  /\ progress_run.pc = "start"
  /\ progress_run' = [progress_run EXCEPT !.pc = "filter",
                        !.status = "submitted", !.progress = Float_0_0]
  /\ UNCHANGED <<orchVars, clientVars, classify_args, classification,
                 compare_args, comparison, eval_args, eval_result, executor,
                 assessments>>

\* lines 361-368: no task matches
YieldNoTasks ==
  /\ progress_run.pc = "filter"
  /\ progress_run.len_tasks = 0
  /\ progress_run' = [progress_run EXCEPT !.pc = "done",
                        !.status = "failed", !.progress = Float_1_0]
  /\ UNCHANGED <<orchVars, clientVars, classify_args, classification,
                 compare_args, comparison, eval_args, eval_result, executor,
                 assessments>>

\* lines 370-383
YieldStarting ==
  /\ progress_run.pc = "filter"
  /\ progress_run.len_tasks > 0
  /\ progress_run' = [progress_run EXCEPT !.pc = "tasks", !.task_i = 1,
                        !.evaluations_done = 0,
                        !.status = "working", !.progress = Float_0_05]
  /\ UNCHANGED <<orchVars, clientVars, classify_args, classification,
                 compare_args, comparison, eval_args, eval_result, executor,
                 assessments>>

\* lines 432-473: one response of the current task is evaluated; after the
\* last participant's the loop moves to the next task
YieldEvaluated ==
  /\ progress_run.pc = "tasks"
  /\ progress_run.task_i <= progress_run.len_tasks
  /\ progress_run.len_participants > 0
  /\ LET done == progress_run.evaluations_done + 1
         total_evaluations == progress_run.len_tasks * progress_run.len_participants
     IN progress_run' = [progress_run EXCEPT
          !.evaluations_done = done,
          !.task_i = IF done % progress_run.len_participants = 0
                       THEN @ + 1 ELSE @,
          !.status = "evaluated",
          !.task = progress_run.task_i,
          !.progress = evaluation_progress(done, total_evaluations)]
  /\ UNCHANGED <<orchVars, clientVars, classify_args, classification,
                 compare_args, comparison, eval_args, eval_result, executor,
                 assessments>>

\* lines 475-479: the task loop is over
YieldBuilding ==
  /\ progress_run.pc = "tasks"
  /\ \/ progress_run.task_i > progress_run.len_tasks
     \/ progress_run.len_participants = 0
  /\ progress_run' = [progress_run EXCEPT !.pc = "build",
                        !.status = "working", !.progress = Float_0_95]
  /\ UNCHANGED <<orchVars, clientVars, classify_args, classification,
                 compare_args, comparison, eval_args, eval_result, executor,
                 assessments>>

\* lines 481-494: with no participant rankings[0] raises IndexError and no
\* update is yielded
YieldCompleted ==
  /\ progress_run.pc = "build"
  /\ progress_run' =
       IF progress_run.len_participants = 0
         THEN [progress_run EXCEPT !.pc = "raised"]
         ELSE [progress_run EXCEPT !.pc = "done", !.status = "completed",
                                   !.progress = Float_1_0]
  /\ UNCHANGED <<orchVars, clientVars, classify_args, classification,
                 compare_args, comparison, eval_args, eval_result, executor,
                 assessments>>

NextProgress ==
  \/ YieldSubmitted
  \/ YieldNoTasks
  \/ YieldStarting
  \/ YieldEvaluated
  \/ YieldBuilding
  \/ YieldCompleted

SpecProgress == InitProgress /\ [][NextProgress]_vars

\* ================================================================ claims
Terminal(u) == u.status \in {"completed", "failed"}
LastUpdate == stream[Len(stream)]
Breaker(h) == circuit_breakers[h]

\* C1: when handle_assessment has ended, its stream holds exactly one terminal
\* update (completed or failed) and that update is the last one; no terminal
\* update is ever followed by another update.
C1_OneTerminalUpdate ==
  /\ \A i \in DOMAIN stream : Terminal(stream[i]) => i = Len(stream) /\ pc = "done"
  /\ pc = "done" => stream # <<>> /\ Terminal(LastUpdate)

\* C2: when dispatches raised, the assessment still ends with completed, each
\* pair whose dispatch raised has a failed zero-score TaskResult carrying the
\* error, and every (participant, task) pair was dispatched and has a result.
C2_DispatchFailureIsLocal ==
  (pc = "done" /\ dispatch_raised # {}) =>
    /\ LastUpdate.status = "completed"
    /\ \A d \in dispatch_raised :
         \E i \in DOMAIN tasks :
           /\ tasks[i].id = d[2]
           /\ i <= Len(all_results[d[1]])
           /\ all_results[d[1]][i].task_id = d[2]
           /\ all_results[d[1]][i].sql_submitted = NoSql
           /\ all_results[d[1]][i].scores_overall = 0
           /\ all_results[d[1]][i].execution_success = FALSE
           /\ all_results[d[1]][i].error_message = d[3]
    /\ \A p \in PidSet, i \in DOMAIN tasks :
         /\ <<p, tasks[i].id>> \in dispatched
         /\ i <= Len(all_results[p])
         /\ all_results[p][i].task_id = tasks[i].id

C2_Witness ==
  /\ pc = "done"
  /\ ~config.parallel_evaluation
  /\ Len(participants) = 2 /\ Len(tasks) = 2
  /\ <<participants[1], tasks[1].id, "ConnectError">> \in dispatch_raised
  /\ all_results[participants[2]][1].execution_success
  /\ all_results[participants[1]][2].execution_success
  /\ LastUpdate.status = "completed"

\* C7: after an assessment with same_tasks=true, every participant's
\* accumulator holds one TaskResult per filtered task, in task-list order.
C7_TaskIndexAlignment ==
  (pc = "done" /\ config.same_tasks) =>
    \A p \in PidSet :
      /\ Len(all_results[p]) = Len(tasks)
      /\ \A i \in DOMAIN tasks : all_results[p][i].task_id = tasks[i].id

C7_Witness ==
  /\ pc = "done" /\ config.same_tasks
  /\ Len(participants) = 2 /\ Len(tasks) = 2
  /\ \E d \in dispatch_raised : d[1] = participants[1] /\ d[2] = tasks[1].id
  /\ all_results[participants[2]][1].sql_submitted # NoSql
  /\ all_results[participants[1]][2].task_id = all_results[participants[2]][2].task_id

\* C8: the rankings hold every participant exactly once, with ranks 1..n in
\* list order and the averaged overall score non-increasing along the list.
C8_RankingTotality ==
  artifact.built =>
    LET rk == artifact.rankings IN
    /\ Len(rk) = Len(participants)
    /\ \A p \in PidSet :
         Cardinality({ i \in DOMAIN rk : rk[i].participant_id = p }) = 1
    /\ \A i \in DOMAIN rk :
         /\ rk[i].rank = i
         /\ rk[i].overall_score = average_overall(all_results[rk[i].participant_id])
    /\ \A i \in DOMAIN rk : i < Len(rk) => rk[i].overall_score >= rk[i + 1].overall_score

C8_Witness ==
  /\ artifact.built
  /\ Len(artifact.rankings) = 2
  /\ artifact.rankings[1].participant_id = participants[2]
  /\ artifact.rankings[1].overall_score > artifact.rankings[2].overall_score
  /\ artifact.rankings[2].overall_score > 0

IdIndex(p) == CHOOSE i \in DOMAIN PidsSorted : PidsSorted[i] = p

\* C9: participants with the same averaged overall score appear in the
\* rankings in ascending order of candidate id.
C9_TiesByIdAscending ==
  artifact.built =>
    \A i, j \in DOMAIN artifact.rankings :
      (i < j /\ artifact.rankings[i].overall_score = artifact.rankings[j].overall_score)
        => IdIndex(artifact.rankings[i].participant_id)
             < IdIndex(artifact.rankings[j].participant_id)

ConfigError ==
  \/ participants = <<>>
  \/ config.scorer_preset \notin ValidPresets
  \/ config.dialect \notin ValidDialects

\* C10: an assessment whose request has a configuration error dispatches no
\* task, builds no artifact and ends its stream with a failed update.
C10_ConfigErrorFails ==
  ConfigError =>
    /\ dispatched = {}
    /\ ~artifact.built
    /\ pc = "done" => stream # <<>> /\ LastUpdate.status = "failed"

\* a call in slot r is admitted by the breaker in this step
Admitted(r) == req[r].pc = "idle" /\ req'[r].pc = "sending"

\* C3 (as stated): once a host has three consecutive failures, its breaker is
\* open and no further request to it is admitted.
C3_FourthRequestRejected ==
  [][ /\ \A h \in Hosts :
           Breaker(h).failures >= FailureThreshold => Breaker(h).state = "open"
      /\ \A r \in Reqs :
           Admitted(r) => Breaker(req'[r].host).failures < FailureThreshold ]_vars

\* C3 (amended): a host with three consecutive failures whose latest failure
\* is less than the recovery timeout ago has an open breaker, and a request to
\* it is not admitted: it ends with CircuitOpenError for that host after zero
\* HTTP attempts.
C3_FailFastWithinRecovery ==
  [][ /\ \A h \in Hosts :
           (/\ Breaker(h)'.failures >= FailureThreshold
            /\ now' - Breaker(h)'.last_failure_time < RecoveryTimeout)
             => Breaker(h)'.state = "open"
      /\ \A r \in Reqs :
           Admitted(r) =>
             ~ (/\ Breaker(req'[r].host).failures >= FailureThreshold
                /\ now - Breaker(req'[r].host).last_failure_time < RecoveryTimeout)
      /\ (last' # last /\ last'.outcome = "circuit_open") =>
           /\ last'.attempts = 0
           /\ req' = req
           /\ circuit_breakers[last'.host].state \in {"open", "half_open"} ]_vars

C3_Witness ==
  /\ last.outcome = "circuit_open"
  /\ last.host = "h1"
  /\ Breaker("h1").state = "open"
  /\ Breaker("h1").failures = FailureThreshold
  /\ now > Breaker("h1").last_failure_time
  /\ now - Breaker("h1").last_failure_time < RecoveryTimeout

ProbesInFlight(h) ==
  { r \in Reqs : /\ req[r].pc = "sending"
                 /\ req[r].host = h
                 /\ req[r].via \in {"recovery", "half_open"} }

\* C4: while a breaker is half_open, at most one request admitted since the
\* recovery timeout elapsed is in flight.
C4_OneTestRequest ==
  \A h \in Hosts :
    Breaker(h).state = "half_open" => Cardinality(ProbesInFlight(h)) <= 1

\* C5: one call of request makes at most three HTTP attempts.
C5_AtMostThreeAttempts ==
  /\ \A r \in Reqs : req[r].attempts <= StopAfterAttempt
  /\ last.attempts <= StopAfterAttempt

C5_Witness ==
  /\ last.outcome = "error"
  /\ last.attempts = StopAfterAttempt
  /\ last.resp = "timeout"

\* C6: a call whose first attempt got an HTTP 4xx response is over: it is not
\* waiting for a second attempt.
C6_ClientErrorNotRetried ==
  \A r \in Reqs :
    ~ (req[r].pc = "sending" /\ req[r].attempts = 1 /\ req[r].resp = "http4xx")

\* one catalog task meets the difficulty and tag criteria of a config
PassesFilter(task, cfg) ==
  /\ task.difficulty \in cfg.difficulty
  /\ cfg.tags = {} \/ task.tags \cap cfg.tags # {}

NoTaskPasses == \A i \in DOMAIN AllTasks : ~ PassesFilter(AllTasks[i], config)

\* C11: when no catalog task passes the filter, the stream is the submitted
\* update followed by one failed update and then ends; nothing is dispatched,
\* no working update is emitted and no artifact is built.
C11_EmptyFilterFails ==
  NoTaskPasses =>
    /\ dispatched = {}
    /\ ~ artifact.built
    /\ raised = NoError
    /\ \A i \in DOMAIN stream : stream[i].status # "working"
    /\ pc \in {"start", "submitted", "done"}
    /\ pc = "done" =>
         stream = << TaskUpdate("submitted", 0, NoPid, "", FALSE),
                     TaskUpdate("failed", 10000, NoPid, "", FALSE) >>

C11_Witness ==
  /\ NoTaskPasses
  /\ pc = "done"
  /\ Len(stream) = 2
  /\ Len(participants) = 2
  /\ has_send
  /\ config.task_count >= 1

\* C17 (as stated): when a host has answered HTTP 5xx three times in a row its
\* breaker is open, and a further request to it is not admitted before the
\* recovery timeout has elapsed.
C17_ThreeAnswersOpen ==
  [][ \A h \in Hosts :
        /\ (answers[h].n5xx < FailureThreshold /\ answers'[h].n5xx >= FailureThreshold)
             => Breaker(h)'.state = "open"
        /\ \A r \in Reqs :
             (Admitted(r) /\ req'[r].host = h /\ answers[h].n5xx >= FailureThreshold)
               => now - Breaker(h).last_failure_time >= RecoveryTimeout ]_vars

\* C17 (amended): a call that ends on an HTTP 5xx answer has made three
\* attempts; after three consecutive calls to a host that ended so, with no
\* successful call and no reset in between, the breaker is open while the
\* latest failure is less than the recovery timeout ago, and a request made
\* then is not admitted: it ends with CircuitOpenError after zero attempts.
C17_ThreeFailedCallsOpen ==
  [][ /\ (last' # last /\ last'.outcome = "error" /\ last'.resp = "http5xx")
           => last'.attempts = StopAfterAttempt
      /\ \A h \in Hosts :
           (/\ answers'[h].calls >= FailureThreshold
            /\ now' - Breaker(h)'.last_failure_time < RecoveryTimeout)
             => Breaker(h)'.state = "open"
      /\ \A r \in Reqs :
           Admitted(r) =>
             ~ (/\ answers[req'[r].host].calls >= FailureThreshold
                /\ now - Breaker(req'[r].host).last_failure_time < RecoveryTimeout)
      /\ (/\ last' # last
          /\ last'.outcome = "circuit_open"
          /\ answers[last'.host].calls >= FailureThreshold)
           => last'.attempts = 0 /\ req' = req ]_vars

C17_Witness ==
  /\ answers["h1"].calls >= FailureThreshold
  /\ last.outcome = "circuit_open"
  /\ last.host = "h1"
  /\ Breaker("h1").state = "open"
  /\ Breaker("h1").last_failure_time = now
  /\ \A r \in Reqs : req[r].pc = "idle"

\* the call in slot r ends in this step
Ended(r) == req[r].pc = "sending" /\ req'[r].pc = "idle"

C12_PhantomTableAlways ==
  (classification # NoClassification /\ classify_args.phantom_tables # <<>>) =>
    classification = Classification("schema_error", "wrong_table", 95)

\* C12 (amended): whenever phantom_tables is non-empty, classify returns
\* schema_error / wrong_table with confidence 0.95, unless the execution
\* succeeded without validation errors and match_score is at least 0.95, in
\* which case it returns no_error / no_error with confidence 1.0.
C12_PhantomTableUnlessNoError ==
  (classification # NoClassification /\ classify_args.phantom_tables # <<>>) =>
    IF /\ classify_args.execution_success
       /\ classify_args.validation_errors = <<>>
       /\ classify_args.match_score >= 9500
      THEN classification = Classification("no_error", "no_error", 100)
      ELSE classification = Classification("schema_error", "wrong_table", 95)

C12_Witness ==
  /\ classification = Classification("schema_error", "wrong_table", 95)
  /\ classify_args.phantom_tables # <<>>
  /\ classify_args.phantom_columns # <<>>
  /\ classify_args.error_message = "syntax error near FRM"
  /\ classify_args.validation_errors = <<"no such column: nam">>
  /\ classify_args.execution_success
  /\ classify_args.match_score = 10000

\* all rows of a row list have the same key set
WellFormed(rows) == \A i, j \in DOMAIN rows : DOMAIN rows[i] = DOMAIN rows[j]

\* C13: comparing a well-formed row list with itself gives is_match=true and
\* match_score=1.0, under either row-order setting.
C13_SelfCompareMatches ==
  (/\ comparison # NoComparison
   /\ compare_args.actual = compare_args.expected
   /\ WellFormed(compare_args.actual))
    => comparison.is_match /\ comparison.match_score = 10000

\* the row lists with the same rows in another order
Reorderings(rows) ==
  { [ i \in DOMAIN rows |-> rows[f[i]] ] :
      f \in { g \in [DOMAIN rows -> DOMAIN rows] :
                \A i, j \in DOMAIN rows : i # j => g[i] # g[j] } }

\* C14: with ignore_row_order=true, is_match and match_score of well-formed
\* row lists are the same for every reordering of the rows of actual and of
\* expected, and an actual that is a reordering of expected matches.
C14_RowOrderIrrelevant ==
  (/\ comparison # NoComparison
   /\ compare_args.ignore_row_order
   /\ WellFormed(compare_args.actual)
   /\ WellFormed(compare_args.expected)) =>
    \A pa \in Reorderings(compare_args.actual),
       pe \in Reorderings(compare_args.expected) :
      LET other == compare(TRUE, pa, pe) IN
      /\ other.is_match = comparison.is_match
      /\ other.match_score = comparison.match_score

\* C15: every ComparisonResult has match_score in [0, 1], and is_match=true
\* implies match_score >= 0.99, row_count_match and column_count_match.
C15_ScoreRangeAndMatch ==
  comparison # NoComparison =>
    /\ 0 <= comparison.match_score /\ comparison.match_score <= 10000
    /\ comparison.is_match =>
         /\ comparison.match_score >= 9900
         /\ comparison.row_count_match
         /\ comparison.column_count_match

C15_Witness ==
  /\ comparison.is_match
  /\ compare_args.ignore_row_order
  /\ Len(compare_args.actual) = 2
  /\ DOMAIN compare_args.actual[1] = {"x", "y"}
  /\ compare_args.actual[1]["x"] = 2
  /\ compare_args.expected[1]["x"] = 0
  /\ compare_args.actual # compare_args.expected

\* C16: the overall score of every TaskResult made from a submitted SQL,
\* whether its execution succeeded or failed, is the weighted sum of its
\* correctness, efficiency, safety and completeness.
C16_OverallIsWeightedSum ==
  eval_result # NoTaskResult =>
    eval_result.scores.overall =
      compute_overall(eval_result.scores.correctness,
                      eval_result.scores.efficiency,
                      eval_result.scores.safety,
                      eval_result.scores.completeness)

\* the evidence of a TaskResult, as arguments of classify
Evidence(t, a) ==
  [ sql_submitted |-> t.sql_submitted, gold_sql |-> t.gold_sql,
    execution_success |-> t.execution_success,
    validation_errors |-> t.validation_errors,
    phantom_tables |-> t.phantom_tables,
    phantom_columns |-> t.phantom_columns,
    error_message |-> t.error_message,
    match_score |->
      IF t.execution_success /\ a.expected_results.present
        THEN comparator_compare(a.data, a.expected_results.rows).match_score
        ELSE NoScore ]

\* C20: every TaskResult made from a non-empty submitted SQL carries the
\* category and subcategory that classify returns for its evidence.
C20_ResultIsClassified ==
  eval_result # NoTaskResult =>
    /\ eval_result.error_category = classify(Evidence(eval_result, eval_args)).category
    /\ eval_result.error_subcategory =
         classify(Evidence(eval_result, eval_args)).subcategory

\* C19: the TaskResults of each of two assessments run on one orchestrator,
\* concurrently or one after the other, are those it gets when run alone,
\* whatever SQL the other assessment's candidates submit.
C19_AssessmentsIsolated ==
  \A i \in AssessmentIds :
    assessments[i].all_results = assessments[i].alone_results

\* C21: with same_tasks=true the task-comparison matrix of the artifact has
\* one row per task index, each with an entry for every candidate; with
\* same_tasks=false the matrix is omitted.
C21_MatrixOnlyForSameTasks ==
  (artifact.built /\ participants # <<>>) =>
    /\ config.same_tasks =>
         /\ Len(artifact.task_comparison) = Len(tasks)
         /\ \A i \in DOMAIN artifact.task_comparison :
              /\ artifact.task_comparison[i].task_id = tasks[i].id
              /\ DOMAIN artifact.task_comparison[i].agent_scores = PidSet
    /\ ~ config.same_tasks => artifact.task_comparison = <<>>

\* C22: a breaker that is open never becomes closed in one step, whatever
\* requests to its host are in flight, unless the step is a manual reset
\* (the only step to closed that ends no request).
C22_OpenNeverStraightToClosed ==
  [][\A h \in Hosts :
       (circuit_breakers[h].state = "open"
        /\ circuit_breakers'[h].state = "closed") => req' = req]_vars

\* C24: at most |participants| dispatches are in flight, and a dispatch
\* starts only when no dispatch is in flight, for the current task, after
\* every response of the tasks before it has been evaluated.
C24_DispatchPerTask ==
  [][/\ Cardinality(inflight') <= Len(participants)
     /\ dispatched' # dispatched =>
          /\ inflight = {}
          /\ \A p \in PidSet : Len(all_results[p]) = task_idx - 1
          /\ (dispatched' \ dispatched) \subseteq
               { <<p, tasks[task_idx].id>> : p \in PidSet }]_vars

C24_Witness ==
  /\ Cardinality(inflight) = 2
  /\ task_idx = 2
  /\ \A p \in PidSet : Len(all_results[p]) = 1

\* the catalog position of a task
CatalogIndex(task) == CHOOSE i \in DOMAIN AllTasks : AllTasks[i] = task

\* C25: the list _filter_tasks returns holds, in catalog order, only
\* catalog tasks that meet the difficulty and tag criteria, and at most
\* task_count of them.
C25_FilterSelectsAtMostCount ==
  pc \notin {"start", "submitted"} =>
    /\ \A i \in DOMAIN tasks :
         /\ \E k \in DOMAIN AllTasks : AllTasks[k] = tasks[i]
         /\ PassesFilter(tasks[i], config)
    /\ \A i, j \in DOMAIN tasks :
         i < j => CatalogIndex(tasks[i]) < CatalogIndex(tasks[j])
    /\ Len(tasks) <= config.task_count

\* C26: the TaskResult recorded for a response with empty sql (a dispatch
\* that raised included) has execution_success=false, the returned error as
\* error_message and zero in every score field, sub-scores included.
C26_EmptySqlZeroScores ==
  \A p \in Pids : \A i \in DOMAIN all_results[p] :
    LET tr == all_results[p][i] IN
    tr.sql_submitted = NoSql =>
      /\ ~ tr.execution_success
      /\ \A err \in {"ConnectError"} :
           <<p, tr.task_id, err>> \in dispatch_raised => tr.error_message = err
      /\ \A f \in DOMAIN tr.scores : tr.scores[f] = 0

\* C27: for a task that has an expected result set, one of zero rows
\* included, the correctness of a successfully executed submission is the
\* comparator's verdict on (actual rows, expected rows): 1.0 for a match,
\* otherwise its match_score.
C27_CorrectnessFromComparator ==
  (/\ eval_result # NoTaskResult
   /\ eval_result.execution_success
   /\ eval_args.expected_results.present) =>
    LET verdict == comparator_compare(eval_args.data,
                                      eval_args.expected_results.rows)
    IN eval_result.scores.correctness =
         IF verdict.is_match THEN 10000 ELSE verdict.match_score

\* C28: whenever a request admitted in half_open ends while the breaker is
\* half_open, by success, by an error or by cancellation, the breaker leaves
\* half_open.
C28_TestRequestEndLeavesHalfOpen ==
  [][\A r \in Reqs, h \in Hosts :
       (/\ req[r].pc = "sending" /\ req'[r].pc = "idle"
        /\ req[r].host = h
        /\ req[r].via \in {"recovery", "half_open"}
        /\ circuit_breakers[h].state = "half_open")
         => circuit_breakers'[h].state # "half_open"]_vars

\* C29: in every state a breaker reaches by any interleaving of can_execute,
\* record_success, record_failure and reset, closed implies fewer failures
\* than the threshold, open implies a recorded last-failure time, and the
\* half-open call counter is at most half_open_max_calls.
C29_BreakerStateInvariant ==
  \A h \in Hosts :
    circuit_breakers[h] # NoBreaker =>
      /\ circuit_breakers[h].state = "closed" =>
           circuit_breakers[h].failures < FailureThreshold
      /\ circuit_breakers[h].state = "open" =>
           circuit_breakers[h].last_failure_time # NoTime
      /\ circuit_breakers[h].half_open_calls <= HalfOpenMaxCalls

C29_Witness ==
  \E h \in Hosts :
    /\ circuit_breakers[h].state = "half_open"
    /\ circuit_breakers[h].half_open_calls = HalfOpenMaxCalls
    /\ circuit_breakers[h].failures > FailureThreshold

\* the step is part of a request to host a: it is admitted or refused, or one
\* of its attempts is made
RequestStepOn(a) ==
  \/ \E r \in Reqs : /\ req[r].pc = "idle"
                     /\ req'[r].pc = "sending"
                     /\ req'[r].host = a
  \/ \E r \in Reqs : /\ req[r].pc = "sending"
                     /\ req[r].host = a
                     /\ req'[r] # req[r]
  \/ last' # last /\ last'.host = a

\* C30: breakers are per host: a request to host a leaves the breaker (state,
\* failure counter, last-failure time) of every other host as it was, and a
\* request is refused only when the breaker of its own host is not closed.
C30_BreakersPerHost ==
  [][/\ \A a \in Hosts, b \in Hosts :
          RequestStepOn(a) /\ a # b =>
            circuit_breakers'[b] = circuit_breakers[b]
     /\ last' # last /\ last'.outcome = "circuit_open" =>
          /\ circuit_breakers[last'.host] # NoBreaker
          /\ circuit_breakers[last'.host].state \in {"open", "half_open"}]_vars

C30_Witness ==
  /\ circuit_breakers["h1"] # NoBreaker
  /\ circuit_breakers["h1"].state = "open"
  /\ circuit_breakers["h1"].failures = FailureThreshold
  /\ req["r1"].pc = "sending"
  /\ req["r1"].host = "h2"
  /\ circuit_breakers["h2"].state = "closed"
  /\ circuit_breakers["h2"].failures = 0

\* C23: along one assessment's stream the progress value never decreases and
\* stays in [0, 1]; the k-th per-evaluation update carries
\* 0.10 + 0.85*k/(|tasks|*|participants|); every per-evaluation update for
\* task i is emitted before any for task i+1.
C23_ProgressNeverDecreases ==
  [][/\ progress_run.status # "none" =>
          Leq(progress_run.progress, progress_run'.progress)
     /\ Leq(progress_run'.progress, Float_1_0)
     /\ progress_run'.status = "evaluated" =>
          /\ progress_run'.progress =
               evaluation_progress(progress_run'.evaluations_done,
                 progress_run.len_tasks * progress_run.len_participants)
          /\ progress_run.task <= progress_run'.task]_vars

====
